---- MODULE Spec2Model ----
(***************************************************************************)
(* The local multi-service supervisor of Price Optimizer AI.               *)
(*                                                                         *)
(* Part I models the Electron main process (src/electron/main.js): the     *)
(* app.whenReady startup handler, the readiness probe checkServer, the     *)
(* child-process handlers of startBackend / startFrontend, cleanup, and    *)
(* the app / process event handlers.  Every JavaScript callback runs to    *)
(* completion, so each handler (with the promise continuation it           *)
(* triggers) is one action.                                                *)
(*                                                                         *)
(* Part II models the launcher shell script (src/unnamed/part_000).        *)
(*                                                                         *)
(* Part III models the environment startBackend / startFrontend hand to    *)
(* spawn().  It has no influence on the handlers of Part I, so it is       *)
(* studied on its own, over a range of process environments.               *)
(*                                                                         *)
(* Part IV models three React hooks of the frontend (src/unnamed/part_001): *)
(* useScrapingRun, usePriceOptimization and useDebounce.  A state update   *)
(* and the render and effects it causes are one action.                    *)
(*                                                                         *)
(* Time is counted in milliseconds and advances in quanta of one retry     *)
(* delay (500 ms).  checkServer only ever reads Date.now() - startTime,    *)
(* so each call carries that difference as its own clock.                  *)
(***************************************************************************)
EXTENDS Integers, Sequences, FiniteSets, TLC

\* ------------------------------------------------------------------------
\* Program constants and model bounds
\* ------------------------------------------------------------------------

\* setTimeout(check, 500): delay before a failed probe attempt is retried.
RetryDelay == 500

\* http.request({... timeout: 2000}): per-attempt socket timeout.
RequestTimeout == 2000

\* The clock quantum.
Tick == RetryDelay

\* Bound: the readiness deadline in clock quanta.  main.js passes 60000 ms
\* (120 quanta) to checkServer; checkServer only compares the elapsed time
\* with it, so a shorter deadline keeps the clock's range small.
DeadlineTicks == 5

\* checkServer(port, 60000): the deadline handed to both probes.
StartupTimeout == DeadlineTicks * Tick

\* Bound: the number of probe attempts / retry timers one checkServer call
\* may have pending at once.
MaxChains == 2

\* for i in {1..30}: the attempts of each health-check loop of the launcher.
MaxAttempts == 30

Services == {"backend", "frontend"}

\* The launcher's children: two background jobs and the foreground Electron.
Kids == {"backend", "frontend", "electron"}

ReqAges == {a \in 0..RequestTimeout : a % Tick = 0}

\* What one checkServer call can have pending: an http request in flight
\* (with its age), a destroyed request whose 'error' event is still to be
\* delivered, or a retry timer (with the time left).
Items == ({"req"} \X ReqAges) \cup {<<"gone", 0>>} \cup ({"timer"} \X {0, RetryDelay})

\* The res.statusCode values a server answers the probe with: a success
\* and a failure.
StatusCodes == {200, 503}

\* Environment variable names: the ones main.js sets and one it does not.
EnvKeys == {"PATH", "PYTHONUNBUFFERED", "PORT", "HOSTNAME", "NEXT_PUBLIC_API_URL"}

\* The value of a name that is not in an environment.
Unset == "unset"

\* The environments the main process may be started with: each name is
\* absent or has a value of the user's.
ProcessEnvs == [EnvKeys -> {Unset, "inherited"}]

\* Bound: the requests of one kind a hook may have awaiting their answer.
MaxCalls == 2

\* Bound: the largest delay handed to useDebounce, in clock quanta.
MaxDelay == 2

\* Run ids handed to useScrapingRun, and the statuses the API reports.
RunIds == {"A", "B"}
RunStatuses == {"running", "completed"}

\* run === null, and no interval set.
NoRun == [id |-> "none", status |-> "none"]

\* The requests of usePriceOptimization.
OptKinds == {"getCachedRecommendations", "optimizePrice", "optimizeBatch"}

\* Values handed to useDebounce.
Values == {"a", "b", "c"}

\* No setTimeout pending.
NoHandler == [value |-> "none", left |-> 0]

\* The environment the handlers of Part I are explored with.
PlainEnv == [k \in EnvKeys |-> IF k = "PATH" THEN "inherited" ELSE Unset]

VARIABLES
    pc,              \* position of the app.whenReady handler
    loadingWindow,   \* "none" | "open" | "destroyed"
    mainWindow,      \* "null" | "window"
    mainLoaded,      \* window.loadURL(frontend) was called on the main window
    pythonProcess,   \* "null" | "child"
    nextProcess,     \* "null" | "child"
    child,           \* OS-level state of each spawned child: "none", "errpending",
                     \* "errored", "alive", "stubborn", "dead" or "reaped"
    signalled,       \* SIGTERMs delivered to each live child
    kills,           \* services in the order kill() was called on them
    spawned,         \* services in the order spawn() returned a child for them
    cleaned,         \* cleanup() has run ('Cleaning up...' was logged)
    failureReports,  \* number of 'Failed to start services' reports
    darwin,          \* process.platform === 'darwin'
    quit,            \* "no" | "quitting" | "exited"
    elapsed,         \* Date.now() - startTime of each checkServer call
                     \* (-1: the call is not running)
    chains,          \* pending probe attempts / timers of each checkServer call
    settled,         \* state of each checkServer promise
    readyStatus,     \* res.statusCode of the response that resolved each
                     \* checkServer promise (0: not resolved)
    shPc,            \* position of the launcher script
    shTry,           \* loop counter i of the running health-check loop
    shKid,           \* the script's children: "none" | "running" | "exited"
    shTermed,        \* SIGTERMs pkill delivered to each running child
    shOrder,         \* the children in the order pkill signalled them
    shPkills,        \* number of times cleanup ran pkill -P $$
    shSig,           \* a trapped SIGINT / SIGTERM is pending
    shFailed,        \* a command failed under set -e
    shStatus,        \* exit status of the script (-1: still running)
    shHealthy,       \* a curl of the service's health-check loop succeeded
    processEnv,      \* process.env of the main process
    isPackaged,      \* app.isPackaged
    childEnv,        \* the env option handed to spawn() for each service
    envStage,        \* how far startBackend(); startFrontend() has got
    runId,           \* useScrapingRun: the runId argument ("none": undefined)
    run,             \* useScrapingRun: the run state (id "none": null)
    progressCalls,   \* scrapingApi.getProgress(id) calls awaiting their answer
    interval,        \* the setInterval of the effect, with the runId and
                     \* run?.status its callback closed over
    mounted,         \* the component using useScrapingRun is mounted
    loading,         \* usePriceOptimization: the loading state
    error,           \* usePriceOptimization: the error state is set
    optCalls,        \* usePriceOptimization: requests awaiting their answer
    value,           \* useDebounce: the value argument
    delay,           \* useDebounce: the delay argument, in clock quanta
    debouncedValue,  \* useDebounce: the debouncedValue state
    handler,         \* useDebounce: the pending setTimeout, with the value
                     \* it closed over and the time left
    unchangedFor     \* time since value last changed (counted up to MaxDelay)

vars == <<pc, loadingWindow, mainWindow, mainLoaded, pythonProcess, nextProcess,
          child, signalled, kills, spawned, cleaned, failureReports,
          darwin, quit, elapsed, chains, settled, readyStatus,
          shPc, shTry, shKid, shTermed, shOrder, shPkills, shSig, shFailed, shStatus,
          shHealthy, processEnv, isPackaged, childEnv, envStage,
          runId, run, progressCalls, interval, mounted,
          loading, error, optCalls,
          value, delay, debouncedValue, handler, unchangedFor>>

\* The launcher script's state.
shVars == <<shPc, shTry, shKid, shTermed, shOrder, shPkills, shSig, shFailed, shStatus,
          shHealthy>>

\* The environment handed to the spawned services (Part III).
spawnVars == <<processEnv, isPackaged, childEnv, envStage>>

\* The state of the React hooks (Part IV).
scrapingVars == <<runId, run, progressCalls, interval, mounted>>
optimizationVars == <<loading, error, optCalls>>
debounceVars == <<value, delay, debouncedValue, handler, unchangedFor>>
hookVars == <<scrapingVars, optimizationVars, debounceVars>>

\* What the handlers of Part I never write: the platform, the launcher's
\* state and the state of Parts III and IV.
outside == <<darwin, shVars, spawnVars, hookVars>>

\* The main process's state.
mainVars == <<pc, loadingWindow, mainWindow, mainLoaded, pythonProcess, nextProcess,
              child, signalled, kills, spawned, cleaned, failureReports,
              darwin, quit, elapsed, chains, settled, readyStatus>>

\* What the launcher script never writes.
outsideLauncher == <<mainVars, spawnVars, hookVars>>

\* What Part III never writes.
outsideSpawn == <<mainVars, shVars, hookVars>>

\* What Part IV never writes.
outsideHooks == <<mainVars, shVars, spawnVars>>

procVars == <<pythonProcess, nextProcess, signalled, kills, cleaned>>
probeVars == <<elapsed, chains, settled, readyStatus>>
windowVars == <<loadingWindow, mainWindow, mainLoaded>>

\* ------------------------------------------------------------------------
\* Helpers
\* ------------------------------------------------------------------------

NoChains == [i \in Items |-> 0]

RECURSIVE SumOver(_, _)
SumOver(S, c) ==
    IF S = {} THEN 0
    ELSE LET i == CHOOSE x \in S : TRUE IN c[i] + SumOver(S \ {i}, c)

Count(c) == SumOver(Items, c)

Put(c, i) == [c EXCEPT ![i] = @ + 1]
Take(c, i) == [c EXCEPT ![i] = @ - 1]

\* One clock quantum passes for the pending items of a call.
Aged(c) ==
    [i \in Items |->
        IF i[1] = "req" THEN (IF i[2] = 0 THEN 0 ELSE c[<<"req", i[2] - Tick>>])
        ELSE IF i[1] = "timer"
             THEN (IF i[2] + Tick <= RetryDelay THEN c[<<"timer", i[2] + Tick>>] ELSE 0)
        ELSE 0]

\* An item that must be handled before the clock advances.
Urgent(c) ==
    \/ c[<<"timer", 0>>] > 0
    \/ c[<<"gone", 0>>] > 0
    \/ c[<<"req", RequestTimeout>>] > 0

\* The clocks of the calls once their pending items are ch: a call that
\* starts reads 0, a call with nothing pending has no clock any more.
Clocks(ch) ==
    [s \in Services |->
        IF Count(ch[s]) = 0 THEN -1
        ELSE IF elapsed[s] = -1 THEN 0 ELSE elapsed[s]]

Ref(s) == IF s = "backend" THEN pythonProcess ELSE nextProcess

WindowCount == (IF loadingWindow = "open" THEN 1 ELSE 0)
               + (IF mainWindow = "window" THEN 1 ELSE 0)

\* A deadline test that already holds at the deadline itself.
DeadlineReached(s) == elapsed[s] >= StartupTimeout

\* Date.now() - startTime > timeout
DeadlinePassed(s) == elapsed[s] > StartupTimeout

\* Events queued with process.nextTick (a failed spawn's 'error', a
\* destroyed request's 'error') are delivered before any other event.
NextTickPending ==
    \/ \E s \in Services : child[s] = "errpending"
    \/ \E s \in Services : chains[s][<<"gone", 0>>] > 0

\* The main process handles an event: it is running, no quit was asked for
\* (Electron completes a requested quit before it handles further events)
\* and the nextTick queue is empty.
Idle == quit = "no" /\ ~NextTickPending

\* ------------------------------------------------------------------------
\* Part I.  src/electron/main.js
\* ------------------------------------------------------------------------

\* The script after `trap cleanup SIGINT SIGTERM EXIT`.
ShInit ==
    /\ shPc = "startBackend"
    /\ shTry = 0
    /\ shKid = [k \in Kids |-> "none"]
    /\ shTermed = [k \in Kids |-> 0]
    /\ shOrder = <<>>
    /\ shPkills = 0
    /\ shSig = FALSE
    /\ shFailed = FALSE
    /\ shStatus = -1
    /\ shHealthy = [s \in Services |-> FALSE]

\* Nothing has been spawned yet.
SpawnInit ==
    /\ childEnv = [s \in Services |-> [k \in EnvKeys |-> Unset]]
    /\ envStage = "none"

\* The main process before app.whenReady() resolves.
MainInit ==
    /\ pc = "idle"
    /\ loadingWindow = "none"
    /\ mainWindow = "null"
    /\ mainLoaded = FALSE
    /\ pythonProcess = "null"
    /\ nextProcess = "null"
    /\ child = [s \in Services |-> "none"]
    /\ signalled = [s \in Services |-> 0]
    /\ kills = <<>>
    /\ spawned = <<>>
    /\ cleaned = FALSE
    /\ failureReports = 0
    /\ darwin \in BOOLEAN
    /\ quit = "no"
    /\ elapsed = [s \in Services |-> -1]
    /\ chains = [s \in Services |-> NoChains]
    /\ settled = [s \in Services |-> "notcalled"]
    /\ readyStatus = [s \in Services |-> 0]

\* The hooks after the first render of their components: useScrapingRun()
\* without a run id yet, usePriceOptimization() with nothing requested,
\* useDebounce("a", 1) with its first timer set.
HooksInit ==
    /\ runId = "none"
    /\ run = NoRun
    /\ progressCalls = [i \in RunIds |-> 0]
    /\ interval = NoRun
    /\ mounted = TRUE
    /\ loading = FALSE
    /\ error = FALSE
    /\ optCalls = [k \in OptKinds |-> 0]
    /\ value = "a"
    /\ delay = 1
    /\ debouncedValue = "a"
    /\ handler = [value |-> "a", left |-> 1]
    /\ unchangedFor = 0

Init ==
    /\ ShInit
    /\ SpawnInit
    /\ processEnv = PlainEnv
    /\ isPackaged = FALSE
    /\ MainInit
    /\ HooksInit

\* A cleanup() that stops the backend and forgets the frontend.
CleanupBackendOnly(py, nx, kids) ==
    /\ pythonProcess' = "null"
    /\ nextProcess' = nx
    /\ kills' = kills \o (IF py = "child" THEN <<"backend">> ELSE <<>>)
    /\ signalled' =
          [s \in Services |->
              IF s = "backend" /\ py = "child" /\ kids[s] \in {"alive", "stubborn"}
              THEN signalled[s] + 1 ELSE signalled[s]]
    /\ cleaned' = TRUE

\* A cleanup() that signals the children and keeps their references.
CleanupKeepsRefs(py, nx, kids) ==
    /\ pythonProcess' = py
    /\ nextProcess' = nx
    /\ kills' = kills \o (IF py = "child" THEN <<"backend">> ELSE <<>>)
                      \o (IF nx = "child" THEN <<"frontend">> ELSE <<>>)
    /\ signalled' =
          [s \in Services |->
              LET ref == IF s = "backend" THEN py ELSE nx
              IN  IF ref = "child" /\ kids[s] \in {"alive", "stubborn"}
                  THEN signalled[s] + 1 ELSE signalled[s]]
    /\ cleaned' = TRUE

\* cleanup(): SIGTERM to the backend, then to the frontend, each only if its
\* reference is still held; both references are dropped.  py, nx and kids
\* are the references and child states at the moment of the call.
Cleanup(py, nx, kids) ==
    /\ pythonProcess' = "null"
    /\ nextProcess' = "null"
    /\ kills' = kills \o (IF py = "child" THEN <<"backend">> ELSE <<>>)
                      \o (IF nx = "child" THEN <<"frontend">> ELSE <<>>)
    /\ signalled' =
          [s \in Services |->
              LET ref == IF s = "backend" THEN py ELSE nx
              IN  IF ref = "child" /\ kids[s] \in {"alive", "stubborn"}
                  THEN signalled[s] + 1 ELSE signalled[s]]
    /\ cleaned' = TRUE

\* app.quit(): asks Electron to quit; the quit itself completes later.
AppQuit == quit' = IF quit = "no" THEN "quitting" ELSE quit

\* The catch block of the startup handler.  lw is the loading window at
\* that moment: close() on a destroyed window throws, which ends the
\* handler before cleanup() and app.quit().
CatchBlock(lw, py, nx, kids) ==
    /\ failureReports' = failureReports + 1
    /\ IF lw = "destroyed"
       THEN /\ pc' = "crashed"
            /\ loadingWindow' = lw
            /\ pythonProcess' = py
            /\ nextProcess' = nx
            /\ UNCHANGED <<signalled, kills, cleaned, quit>>
       ELSE /\ pc' = "failed"
            /\ loadingWindow' = "destroyed"
            /\ Cleanup(py, nx, kids)
            /\ AppQuit

\* The spawn outcomes of startBackend() followed by startFrontend():
\* "alive" (a process runs), "errpending" (spawn failed, the 'error' event
\* is still to be delivered) or "throws" (spawn threw synchronously, which
\* skips what follows it in the try block).
SpawnOutcomes ==
    {o \in [Services -> {"alive", "errpending", "throws", "none"}] :
        /\ o["backend"] # "none"
        /\ (o["frontend"] = "none") <=> (o["backend"] = "throws")}

\* app.whenReady().then(...): loading window, startBackend(),
\* startFrontend(), then the first attempt of checkServer(BACKEND_PORT).
WhenReady ==
    /\ pc = "idle"
    /\ quit = "no"
    /\ \E o \in SpawnOutcomes :
         LET got(s) == o[s] \in {"alive", "errpending"}
             py == IF got("backend") THEN "child" ELSE "null"
             nx == IF got("frontend") THEN "child" ELSE "null"
             kids == [s \in Services |-> IF got(s) THEN o[s] ELSE "none"]
             threw == \E s \in Services : o[s] = "throws"
             ch == [chains EXCEPT !["backend"] = Put(NoChains, <<"req", 0>>)]
         IN  /\ child' = kids
             /\ spawned' = (IF got("backend") THEN <<"backend">> ELSE <<>>)
                           \o (IF got("frontend") THEN <<"frontend">> ELSE <<>>)
             /\ IF threw
                THEN /\ CatchBlock("open", py, nx, kids)
                     /\ UNCHANGED probeVars
                ELSE /\ pc' = "awaitBackend"
                     /\ loadingWindow' = "open"
                     /\ pythonProcess' = py
                     /\ nextProcess' = nx
                     /\ chains' = ch
                     /\ elapsed' = Clocks(ch)
                     /\ settled' = [settled EXCEPT !["backend"] = "pending"]
                     /\ UNCHANGED <<signalled, kills, cleaned, failureReports, quit>>
                     /\ UNCHANGED readyStatus
    /\ UNCHANGED <<mainWindow, mainLoaded, outside>>

\* Variables no promise continuation writes.
envVars == <<child, spawned, outside>>

\* Variables an event that settles nothing leaves alone.
handlerVars == <<pc, windowVars, procVars, failureReports, quit, settled,
                 readyStatus>>

\* resolve(true) of call s, with the code that follows the await.  ch is
\* chains after the event that caused it, st the status of the response.
Resolved(s, ch, st) ==
    IF settled[s] # "pending"
    THEN /\ chains' = ch
         /\ elapsed' = Clocks(ch)
         /\ UNCHANGED handlerVars
    ELSE IF s = "backend"
    THEN LET ch2 == [ch EXCEPT !["frontend"] = Put(NoChains, <<"req", 0>>)]
         IN  /\ pc' = "awaitFrontend"
             /\ settled' = [settled EXCEPT !["backend"] = "resolved",
                                           !["frontend"] = "pending"]
             /\ readyStatus' = [readyStatus EXCEPT ![s] = st]
             /\ chains' = ch2
             /\ elapsed' = Clocks(ch2)
             /\ UNCHANGED <<windowVars, procVars, failureReports, quit>>
    ELSE /\ settled' = [settled EXCEPT ![s] = "resolved"]
         /\ readyStatus' = [readyStatus EXCEPT ![s] = st]
         /\ chains' = ch
         /\ elapsed' = Clocks(ch)
         /\ IF loadingWindow = "destroyed"
            THEN /\ CatchBlock(loadingWindow, pythonProcess, nextProcess, child)
                 /\ UNCHANGED <<mainWindow, mainLoaded>>
            ELSE /\ pc' = "running"
                 /\ loadingWindow' = "destroyed"
                 /\ mainWindow' = "window"
                 /\ mainLoaded' = TRUE
                 /\ UNCHANGED <<procVars, failureReports, quit>>

\* reject(...) of call s, with the catch block it leads to.
Rejected(s, ch) ==
    IF settled[s] # "pending"
    THEN /\ chains' = ch
         /\ elapsed' = Clocks(ch)
         /\ UNCHANGED handlerVars
    ELSE /\ settled' = [settled EXCEPT ![s] = "rejected"]
         /\ UNCHANGED readyStatus
         /\ chains' = ch
         /\ elapsed' = Clocks(ch)
         /\ CatchBlock(loadingWindow, pythonProcess, nextProcess, child)
         /\ UNCHANGED <<mainWindow, mainLoaded>>

\* The body shared by the 'error' and 'timeout' handlers: reject when the
\* deadline has passed, otherwise setTimeout(check, 500).  c is the call's
\* pending items once the failed request is accounted for.
RetryOrReject(s, c) ==
    IF DeadlinePassed(s)
    THEN Rejected(s, [chains EXCEPT ![s] = c])
    ELSE /\ chains' = [chains EXCEPT ![s] = Put(c, <<"timer", RetryDelay>>)]
         /\ UNCHANGED <<elapsed, handlerVars>>

\* The response callback of http.request: (res) => resolve(true).  The
\* server answers with any status; the callback does not read it.
Response(s) ==
    /\ Idle
    /\ \E a \in ReqAges, st \in StatusCodes :
         /\ chains[s][<<"req", a>>] > 0
         /\ Resolved(s, [chains EXCEPT ![s] = Take(@, <<"req", a>>)], st)
    /\ UNCHANGED envVars

\* req.on('error') for a request that failed to connect.
ConnError(s) ==
    /\ Idle
    /\ \E a \in ReqAges :
         /\ chains[s][<<"req", a>>] > 0
         /\ RetryOrReject(s, Take(chains[s], <<"req", a>>))
    /\ UNCHANGED envVars

\* req.on('timeout'): req.destroy(), then reject or retry.  The destroyed
\* request still delivers its 'error' event.
ReqTimeout(s) ==
    /\ Idle
    /\ chains[s][<<"req", RequestTimeout>>] > 0
    /\ DeadlinePassed(s) \/ Count(chains[s]) < MaxChains
    /\ RetryOrReject(s, Put(Take(chains[s], <<"req", RequestTimeout>>), <<"gone", 0>>))
    /\ UNCHANGED envVars

\* req.on('error') for a request destroyed by the 'timeout' handler.
DestroyedError(s) ==
    /\ quit = "no"
    /\ chains[s][<<"gone", 0>>] > 0
    /\ RetryOrReject(s, Take(chains[s], <<"gone", 0>>))
    /\ UNCHANGED envVars

\* A retry timer fires: check() issues the next request.
TimerFire(s) ==
    /\ Idle
    /\ chains[s][<<"timer", 0>>] > 0
    /\ chains' = [chains EXCEPT ![s] = Put(Take(@, <<"timer", 0>>), <<"req", 0>>)]
    /\ UNCHANGED <<elapsed, handlerVars, envVars>>

\* Time passes while a probe has something pending.
ClockTick ==
    /\ Idle
    /\ \E s \in Services : Count(chains[s]) > 0
    /\ \A s \in Services : ~Urgent(chains[s])
    /\ elapsed' = [s \in Services |-> IF elapsed[s] = -1 THEN -1 ELSE elapsed[s] + Tick]
    /\ chains' = [s \in Services |-> Aged(chains[s])]
    /\ UNCHANGED <<handlerVars, envVars>>

\* A running child exits on its own.
ChildExits(s) ==
    /\ child[s] \in {"alive", "stubborn"}
    /\ child' = [child EXCEPT ![s] = "dead"]
    /\ UNCHANGED <<handlerVars, spawned, outside, elapsed, chains>>

\* A child reacts to a delivered SIGTERM by exiting.
TermExit(s) ==
    /\ child[s] = "alive"
    /\ signalled[s] > 0
    /\ child' = [child EXCEPT ![s] = "dead"]
    /\ UNCHANGED <<handlerVars, spawned, outside, elapsed, chains>>

\* A child reacts to a delivered SIGTERM by ignoring it and running on.
IgnoreTerm(s) ==
    /\ child[s] = "alive"
    /\ signalled[s] > 0
    /\ child' = [child EXCEPT ![s] = "stubborn"]
    /\ UNCHANGED <<handlerVars, spawned, outside, elapsed, chains>>

\* An 'exit' handler that logs and keeps the reference.
ExitEventKeepsRef(s) ==
    /\ Idle
    /\ child[s] = "dead"
    /\ child' = [child EXCEPT ![s] = "reaped"]
    /\ UNCHANGED <<pythonProcess, nextProcess>>
    /\ UNCHANGED <<pc, windowVars, signalled, kills, cleaned, spawned,
                   failureReports, outside, quit, probeVars>>

\* pythonProcess.on('exit') / nextProcess.on('exit'): log, drop the reference.
ExitEvent(s) ==
    /\ Idle
    /\ child[s] = "dead"
    /\ child' = [child EXCEPT ![s] = "reaped"]
    /\ pythonProcess' = IF s = "backend" THEN "null" ELSE pythonProcess
    /\ nextProcess' = IF s = "frontend" THEN "null" ELSE nextProcess
    /\ UNCHANGED <<pc, windowVars, signalled, kills, cleaned, spawned,
                   failureReports, outside, quit, probeVars>>

\* pythonProcess.on('error') / nextProcess.on('error'): log only.  The
\* backend's event was queued first.
ErrorEvent(s) ==
    /\ quit = "no"
    /\ child[s] = "errpending"
    /\ s = "frontend" => child["backend"] # "errpending"
    /\ child' = [child EXCEPT ![s] = "errored"]
    /\ UNCHANGED <<handlerVars, spawned, outside, elapsed, chains>>

\* app.on('window-all-closed'): cleanup(), and app.quit() unless on macOS.
WindowAllClosed ==
    /\ Cleanup(pythonProcess, nextProcess, child)
    /\ IF darwin THEN UNCHANGED quit ELSE AppQuit

\* The user closes the loading window.
CloseLoadingWindow ==
    /\ Idle
    /\ loadingWindow = "open"
    /\ loadingWindow' = "destroyed"
    /\ IF mainWindow = "null"
       THEN WindowAllClosed
       ELSE UNCHANGED <<procVars, quit>>
    /\ UNCHANGED <<pc, mainWindow, mainLoaded, child, spawned,
                   failureReports, outside, probeVars>>

\* The user closes the main window: mainWindow.on('closed') drops it.
CloseMainWindow ==
    /\ Idle
    /\ mainWindow = "window"
    /\ mainWindow' = "null"
    /\ mainLoaded' = FALSE
    /\ IF loadingWindow # "open"
       THEN WindowAllClosed
       ELSE UNCHANGED <<procVars, quit>>
    /\ UNCHANGED <<pc, loadingWindow, child, spawned, failureReports,
                   outside, probeVars>>

\* app.on('activate') (macOS): createWindow() when no window is open.
Activate ==
    /\ Idle
    /\ darwin
    /\ pc # "idle"
    /\ IF WindowCount = 0
       THEN mainWindow' = "window" /\ mainLoaded' = FALSE
       ELSE UNCHANGED <<mainWindow, mainLoaded>>
    /\ UNCHANGED <<pc, loadingWindow, procVars, child, spawned,
                   failureReports, outside, quit, probeVars>>

\* process.on('uncaughtException'): cleanup(), app.quit().
UncaughtException ==
    /\ Idle
    /\ pc # "idle"
    /\ Cleanup(pythonProcess, nextProcess, child)
    /\ AppQuit
    /\ UNCHANGED <<pc, windowVars, child, spawned, failureReports,
                   outside, probeVars>>

\* app.quit() completes: Electron closes every window, emits 'quit'
\* (app.on('quit') runs cleanup()) and the main process ends, and with it
\* its timers and requests.
QuitCompletes ==
    /\ quit = "quitting"
    /\ quit' = "exited"
    /\ loadingWindow' = IF loadingWindow = "open" THEN "destroyed" ELSE loadingWindow
    /\ mainWindow' = "null"
    /\ mainLoaded' = FALSE
    /\ Cleanup(pythonProcess, nextProcess, child)
    /\ chains' = [s \in Services |-> NoChains]
    /\ elapsed' = [s \in Services |-> -1]
    /\ UNCHANGED <<pc, child, spawned, failureReports, outside, settled,
                   readyStatus>>

\* The exit status of the main process (-1: it is running).  The process
\* only ever ends through app.quit(), which takes no exit code and ends it
\* with status 0: main.js calls neither app.exit(code) nor process.exit().
ExitCode == IF quit = "exited" THEN 0 ELSE -1

Next ==
    \/ WhenReady
    \/ \E s \in Services : Response(s)
    \/ \E s \in Services : ConnError(s)
    \/ \E s \in Services : ReqTimeout(s)
    \/ \E s \in Services : DestroyedError(s)
    \/ \E s \in Services : TimerFire(s)
    \/ ClockTick
    \/ \E s \in Services : ChildExits(s)
    \/ \E s \in Services : TermExit(s)
    \/ \E s \in Services : IgnoreTerm(s)
    \/ \E s \in Services : ExitEvent(s)
    \/ \E s \in Services : ErrorEvent(s)
    \/ CloseLoadingWindow
    \/ CloseMainWindow
    \/ Activate
    \/ UncaughtException
    \/ QuitCompletes

Spec == Init /\ [][Next]_vars

\* What the runtime guarantees to happen: a requested quit completes, time
\* passes, due timers and queued events are delivered, and a child reacts
\* to a delivered SIGTERM (by exiting or by ignoring it).  Nothing makes a
\* child exit on its own, a server answer or the user act.
Fairness ==
    /\ WF_vars(QuitCompletes)
    /\ WF_vars(ClockTick)
    /\ \A s \in Services :
          /\ WF_vars(TermExit(s) \/ IgnoreTerm(s))
          /\ WF_vars(ExitEvent(s))
          /\ WF_vars(ErrorEvent(s))
          /\ WF_vars(TimerFire(s))
          /\ WF_vars(DestroyedError(s))
          /\ WF_vars(ReqTimeout(s))

FairSpec == Spec /\ Fairness

\* ------------------------------------------------------------------------
\* Part II.  src/unnamed/part_000 (the launcher script)
\* ------------------------------------------------------------------------

\* The orders in which the members of S can be visited.
Orders(S) ==
    {q \in [1..Cardinality(S) -> S] :
        \A i, j \in 1..Cardinality(S) : i # j => q[i] # q[j]}

\* pkill -P $$: SIGTERM to every child of the script that is running, in
\* the order pkill comes across them, which the script does not choose.
Pkill ==
    /\ shPkills' = shPkills + 1
    /\ shTermed' = [k \in Kids |->
                      IF shKid[k] = "running" THEN shTermed[k] + 1 ELSE shTermed[k]]
    /\ \E q \in Orders({k \in Kids : shKid[k] = "running"}) :
         shOrder' = shOrder \o q

\* The script runs its next command: not while a trapped signal waits to
\* be handled, and not once it is exiting.
ShReady(at) == shPc = at /\ ~shSig

\* cd api; uv run uvicorn ... &   A failing cd ends the script (set -e).
ShStartBackend ==
    /\ ShReady("startBackend")
    /\ \/ /\ shKid' = [shKid EXCEPT !["backend"] = "running"]
          /\ shPc' = "backendLoop"
          /\ shTry' = 1
          /\ UNCHANGED shFailed
       \/ /\ shFailed' = TRUE
          /\ shPc' = "exiting"
          /\ UNCHANGED <<shKid, shTry>>
    /\ UNCHANGED <<shTermed, shOrder, shPkills, shSig, shStatus, shHealthy, outsideLauncher>>

\* One round of a health-check loop: curl succeeds and the loop breaks, or
\* it fails, sleep 1, and the loop goes on; after the last round the script
\* goes on as well.
ShCurl(s, loop, after) ==
    /\ ShReady(loop)
    /\ \E ok \in BOOLEAN :
         /\ shHealthy' = [shHealthy EXCEPT ![s] = ok]
         /\ IF ok \/ shTry = MaxAttempts
            THEN shPc' = after /\ shTry' = 0
            ELSE shPc' = loop /\ shTry' = shTry + 1
    /\ UNCHANGED <<shKid, shTermed, shOrder, shPkills, shSig, shFailed, shStatus, outsideLauncher>>

ShBackendCurl == ShCurl("backend", "backendLoop", "startFrontend")

\* pnpm start &
ShStartFrontend ==
    /\ ShReady("startFrontend")
    /\ shKid' = [shKid EXCEPT !["frontend"] = "running"]
    /\ shPc' = "frontendLoop"
    /\ shTry' = 1
    /\ UNCHANGED <<shTermed, shOrder, shPkills, shSig, shFailed, shStatus, shHealthy, outsideLauncher>>

ShFrontendCurl == ShCurl("frontend", "frontendLoop", "startElectron")

\* pnpm electron:start, in the foreground.
ShStartElectron ==
    /\ ShReady("startElectron")
    /\ shKid' = [shKid EXCEPT !["electron"] = "running"]
    /\ shPc' = "electron"
    /\ UNCHANGED <<shTry, shTermed, shOrder, shPkills, shSig, shFailed, shStatus, shHealthy, outsideLauncher>>

\* The foreground command ends: with status 0 the script goes on to wait,
\* otherwise set -e ends the script.
ShElectronExits ==
    /\ shPc = "electron"
    /\ shKid' = [shKid EXCEPT !["electron"] = "exited"]
    /\ \E ok \in BOOLEAN :
         IF ok
         THEN shPc' = "wait" /\ UNCHANGED shFailed
         ELSE shPc' = "exiting" /\ shFailed' = TRUE
    /\ UNCHANGED <<shTry, shTermed, shOrder, shPkills, shSig, shStatus, shHealthy, outsideLauncher>>

\* A background child ends (on its own or after a signal).
ShKidExits(k) ==
    /\ k # "electron"
    /\ shKid[k] = "running"
    /\ shKid' = [shKid EXCEPT ![k] = "exited"]
    /\ UNCHANGED <<shPc, shTry, shTermed, shOrder, shPkills, shSig, shFailed, shStatus, shHealthy, outsideLauncher>>

\* wait returns once no background child is running; the script ends.
ShWait ==
    /\ ShReady("wait")
    /\ \A k \in Kids : shKid[k] # "running"
    /\ shPc' = "exiting"
    /\ UNCHANGED <<shTry, shKid, shTermed, shOrder, shPkills, shSig, shFailed, shStatus, shHealthy, outsideLauncher>>

\* SIGINT or SIGTERM is sent to the script.
ShSignal ==
    /\ shPc \notin {"exiting", "exited"}
    /\ ~shSig
    /\ shSig' = TRUE
    /\ UNCHANGED <<shPc, shTry, shKid, shTermed, shOrder, shPkills, shFailed, shStatus, shHealthy, outsideLauncher>>

\* The SIGINT / SIGTERM trap runs cleanup (once the foreground command, if
\* any, has ended): pkill, then exit 0, which raises the EXIT trap.
ShTrap ==
    /\ shSig
    /\ shPc \notin {"electron", "exiting", "exited"}
    /\ Pkill
    /\ shSig' = FALSE
    /\ shPc' = "exiting"
    /\ UNCHANGED <<shTry, shKid, shFailed, shStatus, shHealthy, outsideLauncher>>

\* The EXIT trap runs cleanup: pkill, then exit 0 ends the script.
ShExitTrap ==
    /\ shPc = "exiting"
    /\ Pkill
    /\ shPc' = "exited"
    /\ shStatus' = 0
    /\ UNCHANGED <<shTry, shKid, shSig, shFailed, shHealthy, outsideLauncher>>

ShNext ==
    \/ ShStartBackend
    \/ ShBackendCurl
    \/ ShStartFrontend
    \/ ShFrontendCurl
    \/ ShStartElectron
    \/ ShElectronExits
    \/ \E k \in Kids : ShKidExits(k)
    \/ ShWait
    \/ ShSignal
    \/ ShTrap
    \/ ShExitTrap

LauncherSpec == Init /\ [][ShNext]_vars

\* `pnpm electron:start` launches the Electron app: once the launcher has
\* started it, the app's whenReady handler runs.
ElectronStart ==
    /\ shKid["electron"] = "running"
    /\ WhenReady

\* A session started through the launcher: the script's steps, and the
\* startup handler of the Electron app it launches.
SessionNext ==
    \/ ShNext
    \/ ElectronStart

SessionSpec == Init /\ [][SessionNext]_vars

\* ------------------------------------------------------------------------
\* Part III.  The env option of spawn() in startBackend / startFrontend
\* ------------------------------------------------------------------------

\* The explicit entries of the env option of each spawn() call.
Overrides(s) ==
    [k \in EnvKeys |->
        IF s = "backend"
        THEN (IF k = "PYTHONUNBUFFERED" THEN "1" ELSE Unset)
        ELSE (IF k = "PORT" THEN "3000"
              ELSE IF k = "NEXT_PUBLIC_API_URL" THEN "http://localhost:8000"
              ELSE IF k = "HOSTNAME" /\ isPackaged THEN "127.0.0.1"
              ELSE Unset)]

\* An object literal that lets the spread entries replace the explicit ones.
SpreadLast(base, over) ==
    [k \in EnvKeys |-> IF base[k] # Unset THEN base[k] ELSE over[k]]

\* { ...base, K: v, ... }: the properties of base are copied first, then
\* each explicit entry is defined, replacing a copied one of the same name.
Spread(base, over) ==
    [k \in EnvKeys |-> IF over[k] # Unset THEN over[k] ELSE base[k]]

\* startBackend(): spawn(pythonCmd, pythonArgs, {env: {...process.env, ...}}).
StartBackend ==
    /\ envStage = "none"
    /\ childEnv' = [childEnv EXCEPT !["backend"] = Spread(processEnv, Overrides("backend"))]
    /\ envStage' = "backend"
    /\ UNCHANGED <<processEnv, isPackaged, outsideSpawn>>

\* startFrontend(): spawn(..., {env: {...process.env, ...}}), in either branch.
StartFrontend ==
    /\ envStage = "backend"
    /\ childEnv' = [childEnv EXCEPT !["frontend"] = Spread(processEnv, Overrides("frontend"))]
    /\ envStage' = "both"
    /\ UNCHANGED <<processEnv, isPackaged, outsideSpawn>>

EnvInit ==
    /\ ShInit
    /\ SpawnInit
    /\ processEnv \in ProcessEnvs
    /\ isPackaged \in BOOLEAN
    /\ MainInit
    /\ HooksInit

EnvNext == StartBackend \/ StartFrontend

EnvSpec == EnvInit /\ [][EnvNext]_vars

\* ------------------------------------------------------------------------
\* Part IV.  src/unnamed/part_001 (React hooks)
\* ------------------------------------------------------------------------

\* --- useScrapingRun ---

\* The effect with id as runId and st as run?.status, after its previous
\* cleanup (clearInterval): fetchProgress(id) and a new interval, or
\* nothing when there is no run id.  calls is progressCalls before it.
RunEffect(id, st, calls) ==
    IF id = "none"
    THEN /\ progressCalls' = calls
         /\ interval' = NoRun
    ELSE /\ calls[id] < MaxCalls
         /\ progressCalls' = [calls EXCEPT ![id] = @ + 1]
         /\ interval' = [id |-> id, status |-> st]

\* The component is rendered with another runId: the effect's dependency
\* changed, so its cleanup and the effect run.
SetRunId ==
    /\ mounted
    /\ \E id \in RunIds \cup {"none"} :
         /\ id # runId
         /\ runId' = id
         /\ RunEffect(id, run.status, progressCalls)
    /\ UNCHANGED <<run, mounted, optimizationVars, debounceVars, outsideHooks>>

\* setRun({id, status: progress.status, ...}) in fetchProgress.
SetRun(id, st) == run' = [id |-> id, status |-> st]

\* await scrapingApi.getProgress(id) returns: setRun, and when that
\* changes run?.status the effect runs again.  After the unmount the
\* state update is dropped.
ProgressResponse ==
    \E id \in RunIds, st \in RunStatuses :
        /\ progressCalls[id] > 0
        /\ LET calls == [progressCalls EXCEPT ![id] = @ - 1]
           IN  IF mounted
               THEN /\ SetRun(id, st)
                    /\ IF run'.status # run.status
                       THEN RunEffect(runId, run'.status, calls)
                       ELSE progressCalls' = calls /\ UNCHANGED interval
               ELSE /\ progressCalls' = calls
                    /\ UNCHANGED <<run, interval>>
        /\ UNCHANGED <<runId, mounted, optimizationVars, debounceVars, outsideHooks>>

\* await scrapingApi.getProgress(id) throws: setError only.
ProgressFails ==
    \E id \in RunIds :
        /\ progressCalls[id] > 0
        /\ progressCalls' = [progressCalls EXCEPT ![id] = @ - 1]
        /\ UNCHANGED <<runId, run, interval, mounted,
                       optimizationVars, debounceVars, outsideHooks>>

\* The interval callback: fetchProgress(runId) if the run?.status it
\* closed over is 'running'.
IntervalFires ==
    /\ interval # NoRun
    /\ interval.status = "running"
    /\ progressCalls[interval.id] < MaxCalls
    /\ progressCalls' = [progressCalls EXCEPT ![interval.id] = @ + 1]
    /\ UNCHANGED <<runId, run, interval, mounted,
                   optimizationVars, debounceVars, outsideHooks>>

\* The component is unmounted: the effect's cleanup runs.
Unmount ==
    /\ mounted
    /\ mounted' = FALSE
    /\ interval' = NoRun
    /\ UNCHANGED <<runId, run, progressCalls,
                   optimizationVars, debounceVars, outsideHooks>>

ScrapingNext ==
    \/ SetRunId
    \/ ProgressResponse
    \/ ProgressFails
    \/ IntervalFires
    \/ Unmount

ScrapingSpec == Init /\ [][ScrapingNext]_vars

\* --- usePriceOptimization ---

\* getCachedRecommendations / optimizePrice / optimizeBatch is called:
\* setLoading(true); setError(null); then the request is awaited.
OptCall(k) ==
    /\ optCalls[k] < MaxCalls
    /\ optCalls' = [optCalls EXCEPT ![k] = @ + 1]
    /\ loading' = TRUE
    /\ error' = FALSE
    /\ UNCHANGED <<scrapingVars, debounceVars, outsideHooks>>

\* The awaited request returns: the result is stored, then the finally
\* block runs setLoading(false).
OptReturns(k) ==
    /\ optCalls[k] > 0
    /\ optCalls' = [optCalls EXCEPT ![k] = @ - 1]
    /\ loading' = FALSE
    /\ UNCHANGED <<error, scrapingVars, debounceVars, outsideHooks>>

\* The awaited request throws: setError(...), then the finally block runs
\* setLoading(false).
OptThrows(k) ==
    /\ optCalls[k] > 0
    /\ optCalls' = [optCalls EXCEPT ![k] = @ - 1]
    /\ error' = TRUE
    /\ loading' = FALSE
    /\ UNCHANGED <<scrapingVars, debounceVars, outsideHooks>>

OptimizationNext ==
    \E k \in OptKinds : OptCall(k) \/ OptReturns(k) \/ OptThrows(k)

OptimizationSpec == Init /\ [][OptimizationNext]_vars

\* --- useDebounce ---

Delays == 1..MaxDelay

\* An effect that captures the new value and leaves a pending timer running.
InputChangesTimerKept(v, d) ==
    /\ v # value \/ d # delay
    /\ value' = v
    /\ delay' = d
    /\ handler' = [value |-> v, left |-> IF handler = NoHandler THEN d ELSE handler.left]
    /\ unchangedFor' = IF v # value THEN 0 ELSE unchangedFor
    /\ UNCHANGED <<debouncedValue, scrapingVars, optimizationVars, outsideHooks>>

\* The component renders with another value or delay: the effect's cleanup
\* runs clearTimeout(handler), then the effect sets a new timer that closes
\* over the new value.
InputChanges(v, d) ==
    /\ v # value \/ d # delay
    /\ value' = v
    /\ delay' = d
    /\ handler' = [value |-> v, left |-> d]
    /\ unchangedFor' = IF v # value THEN 0 ELSE unchangedFor
    /\ UNCHANGED <<debouncedValue, scrapingVars, optimizationVars, outsideHooks>>

\* One clock quantum passes; a timer that is due fires first.
DebounceTick ==
    /\ handler # NoHandler \/ unchangedFor < MaxDelay
    /\ handler = NoHandler \/ handler.left > 0
    /\ handler' = IF handler = NoHandler THEN handler
                  ELSE [handler EXCEPT !.left = @ - 1]
    /\ unchangedFor' = IF unchangedFor < MaxDelay THEN unchangedFor + 1 ELSE unchangedFor
    /\ UNCHANGED <<value, delay, debouncedValue,
                   scrapingVars, optimizationVars, outsideHooks>>

\* The timer fires: setDebouncedValue(value) with the value it closed over.
HandlerFires ==
    /\ handler # NoHandler
    /\ handler.left = 0
    /\ debouncedValue' = handler.value
    /\ handler' = NoHandler
    /\ UNCHANGED <<value, delay, unchangedFor,
                   scrapingVars, optimizationVars, outsideHooks>>

DebounceNext ==
    \/ \E v \in Values, d \in Delays : InputChanges(v, d)
    \/ DebounceTick
    \/ HandlerFires

\* Time passes and due timers fire; nothing makes the input change.
DebounceSpec ==
    /\ Init
    /\ [][DebounceNext]_vars
    /\ WF_vars(DebounceTick)
    /\ WF_vars(HandlerFires)

\* ------------------------------------------------------------------------
\* Properties of Part I
\* ------------------------------------------------------------------------

Started(s) == \E i \in DOMAIN spawned : spawned[i] = s

Pos(seq, x) == CHOOSE i \in DOMAIN seq : seq[i] = x

Running(s) == child[s] \in {"alive", "stubborn"}

\* The number of kill() calls made on the child of service s.
KillCalls(seq, s) == Cardinality({i \in DOMAIN seq : seq[i] = s})

\* C1: the frontend is never spawned before the backend's readiness probe
\* has succeeded (services are started one at a time, each awaited ready
\* before the next is started).
C1_FrontendAfterBackendReady ==
    Started("frontend") => settled["backend"] = "resolved"

\* C2: kill() is called on the children in the exact reverse of the order
\* in which they were spawned.
C2_TeardownReversesStart ==
    \A i, j \in DOMAIN kills :
        i < j => Pos(spawned, kills[i]) > Pos(spawned, kills[j])

\* C3: once the startup handler has taken its failure path, every child
\* that is still a running process has been sent SIGTERM, and the failure
\* was reported exactly once (and never on any other path).
C3_FailureTearsDownAll ==
    /\ pc \in {"failed", "crashed"} =>
          /\ \A s \in Services : Running(s) => signalled[s] >= 1
          /\ failureReports = 1
    /\ pc \notin {"failed", "crashed"} => failureReports = 0

\* C3 witness: the backend probe was rejected with both children running;
\* both were signalled and the failure was reported once.
C3_Witness ==
    /\ pc = "failed"
    /\ settled["backend"] = "rejected"
    /\ \A s \in Services : child[s] = "alive" /\ signalled[s] = 1
    /\ failureReports = 1

\* The promise of call s settles in this step.
Resolves(s) == settled[s] = "pending" /\ settled'[s] = "resolved"
Rejects(s) == settled[s] = "pending" /\ settled'[s] = "rejected"

\* C5: the main window is created and pointed at the frontend only when
\* the probe of every service has succeeded, and a probe succeeds only
\* with a response that arrives before its deadline has elapsed.
C5_RunningOnlyIfReadyInTime ==
    /\ [](pc = "running" => \A s \in Services : settled[s] = "resolved")
    /\ [][\A s \in Services : Resolves(s) => elapsed[s] <= StartupTimeout]_vars

\* C6: the main window exists only if both services passed their readiness
\* probe and teardown has not begun.
C6_WindowOnlyWhenAllReady ==
    mainWindow = "window" =>
        /\ \A s \in Services : settled[s] = "resolved"
        /\ ~cleaned

\* C7: every child that teardown has signalled eventually exits, also a
\* child that ignores the graceful termination request.
C7_SignalledChildExits ==
    \A s \in Services : (signalled[s] > 0) ~> (child[s] \in {"dead", "reaped"})

\* C8: when the backend's 'exit' event is handled while the UI is up, the
\* handler begins teardown: cleanup runs and a running frontend is sent
\* SIGTERM.
C8_BackendExitTearsDown ==
    [][(/\ pc = "running"
        /\ mainWindow = "window"
        /\ child["backend"] = "dead"
        /\ child'["backend"] = "reaped")
       => (/\ cleaned'
           /\ Running("frontend") => signalled'["frontend"] >= 1)]_vars

\* C9: once cleanup has run while a readiness wait is in progress, the
\* wait schedules no further retry (at most the attempt already in flight
\* or already scheduled completes) and the startup sequence does not
\* continue past it.
C9_WaitObservesShutdown ==
    [][\A s \in Services :
          (cleaned /\ settled[s] = "pending") =>
              /\ chains'[s][<<"timer", RetryDelay>>] <= chains[s][<<"timer", RetryDelay>>]
              /\ pc' \in {pc, "failed", "crashed"}]_vars

\* C10: a probe is rejected no earlier than its deadline and no later than
\* the deadline plus the duration of one attempt.
C10_TimeoutWithinOneAttempt ==
    [][\A s \in Services :
          Rejects(s) =>
              /\ elapsed[s] >= StartupTimeout
              /\ elapsed[s] <= StartupTimeout + RequestTimeout]_vars

\* C11: a checkServer promise resolves only on a response with a success
\* status (2xx); a response with another status leaves the probe waiting.
C11_ReadyOnlyOnSuccessStatus ==
    \A s \in Services :
        settled[s] = "resolved" => (readyStatus[s] >= 200 /\ readyStatus[s] <= 299)

\* C15: once a child's 'error' event (a failed spawn) has been handled,
\* startup has failed: the handler is not left waiting for that service
\* and no further probe attempt or retry timer is pending.
C15_SpawnErrorFailsStartup ==
    \A s \in Services :
        child[s] = "errored" =>
            /\ pc \in {"failed", "crashed"}
            /\ \A r \in Services : settled[r] # "pending"

\* C16: startup does not reach Running (present the UI) in a session in
\* which the 'exit' event of a spawned service has already been handled,
\* whoever answers on the service's port.
C16_NoRunningAfterChildExit ==
    [][(pc # "running" /\ pc' = "running") =>
          \A s \in Services : child[s] # "reaped"]_vars

\* C17: the frontend's readiness deadline runs from the frontend's own
\* spawn, whatever time the backend took: when the frontend's probe starts
\* its clock, no time has passed since the spawn (which the whenReady
\* handler does together with the start of the backend's probe).
C17_FrontendDeadlineFromItsSpawn ==
    [][(settled["frontend"] = "notcalled" /\ settled'["frontend"] = "pending") =>
          elapsed'["frontend"] = elapsed["backend"]]_vars

\* C18: once cleanup has run the session only moves towards termination:
\* no service is spawned, no window is created and the startup handler
\* does not advance to a waiting or running phase.
C18_NoWayBackAfterCleanup ==
    [][cleaned =>
          /\ spawned' = spawned
          /\ ~(mainWindow = "null" /\ mainWindow' = "window")
          /\ pc' \in {pc, "failed", "crashed"}]_vars

\* C19: cleanup never calls kill() on, nor delivers a signal to, a child
\* whose 'exit' event has already been handled.
C19_NoSignalAfterExitObserved ==
    [][\A s \in Services :
          child[s] = "reaped" =>
              /\ KillCalls(kills', s) = KillCalls(kills, s)
              /\ signalled'[s] = signalled[s]]_vars

\* C19 witness: cleanup has run after the 'exit' of one service was
\* handled: it signalled the other service and skipped the exited one.
C19_Witness ==
    \E s, r \in Services :
        /\ child[s] = "reaped"
        /\ cleaned
        /\ KillCalls(kills, s) = 0
        /\ KillCalls(kills, r) = 1

\* C20: createWindow() is invoked once, by the startup handler when both
\* services are ready, and by no later event: once startup has succeeded
\* no step creates a main window again.
C20_WindowCreatedOnce ==
    [][pc = "running" => ~(mainWindow = "null" /\ mainWindow' = "window")]_vars

\* C21: a failed probe attempt is not escalated before the deadline: no
\* checkServer call rejects at a moment when the time elapsed since it was
\* called is at most its timeout.
C21_NoRejectBeforeDeadline ==
    [][\A s \in Services : Rejects(s) => elapsed[s] > StartupTimeout]_vars

\* C21 witness: a call was rejected, after attempts that failed before the
\* deadline were retried.
C21_Witness ==
    \E s \in Services : settled[s] = "rejected" /\ failureReports = 1

Waiting == pc \in {"awaitBackend", "awaitFrontend"}

\* C23: every startup attempt ends, and ends in one of two ways: the wait
\* on a readiness probe does not last forever, and the step that ends it
\* either presents the main window or leaves cleanup run and the quit
\* requested.
C23_StartupEnds ==
    /\ [][(Waiting /\ ~Waiting') =>
             (pc' = "running" \/ (cleaned' /\ quit' # "no"))]_vars
    /\ Waiting ~> (pc = "running" \/ (cleaned /\ quit # "no"))

\* C24: once a checkServer call has resolved or rejected it issues no
\* further probe request and schedules no further retry.
C24_NoProbeAfterSettled ==
    [][\A s \in Services :
          settled[s] \in {"resolved", "rejected"} =>
              /\ chains'[s][<<"req", 0>>] <= chains[s][<<"req", 0>>]
              /\ chains'[s][<<"timer", RetryDelay>>] <= chains[s][<<"timer", RetryDelay>>]]_vars

\* C25: one checkServer call has at most one probe attempt pending (a
\* request in flight or a retry timer) at any time.
C25_OneAttemptPending ==
    \A s \in Services :
        SumOver(({"req"} \X ReqAges) \cup ({"timer"} \X {0, RetryDelay}), chains[s]) <= 1

\* C26: the main process holds a reference (pythonProcess, nextProcess)
\* only to a child that spawn() returned, whose 'exit' it has not handled
\* and on which it has not called kill(); once cleanup has run both
\* references are null.
C26_RefsOnlyToLiveChildren ==
    /\ \A s \in Services :
          Ref(s) = "child" =>
              /\ Started(s)
              /\ child[s] \notin {"none", "reaped"}
              /\ KillCalls(kills, s) = 0
    /\ cleaned => \A s \in Services : Ref(s) = "null"

\* C26 witness: the backend's exit was handled while the frontend ran on,
\* then cleanup ran: it found one reference to drop and left none.
C26_Witness ==
    /\ cleaned
    /\ child["backend"] = "reaped"
    /\ kills = <<"frontend">>
    /\ signalled["frontend"] = 1
    /\ pythonProcess = "null"
    /\ nextProcess = "null"

\* ------------------------------------------------------------------------
\* Properties of Part II
\* ------------------------------------------------------------------------

\* C4: whatever termination triggers fire and however they interleave,
\* the launcher performs one teardown sequence and each child receives at
\* most one termination signal.
C4_TeardownOnce ==
    /\ shPkills <= 1
    /\ \A k \in Kids : shTermed[k] <= 1

\* C12: the exit status is 0 only on a clean shutdown: a launcher in which
\* a command failed, and a main process whose startup failed, end with a
\* non-zero status.
C12_ExitStatusTellsFailure ==
    /\ shStatus = 0 => ~shFailed
    /\ ExitCode = 0 => failureReports = 0

\* C13: a SIGINT / SIGTERM handled while both services run sends both of
\* them a termination signal, the frontend before the backend, and the
\* script ends with status 0.
C13_SignalStopsFrontendFirst ==
    /\ [][(/\ shSig
           /\ shKid["backend"] = "running"
           /\ shKid["frontend"] = "running"
           /\ shPkills' = shPkills + 1)
          => (/\ shTermed'["backend"] = shTermed["backend"] + 1
              /\ shTermed'["frontend"] = shTermed["frontend"] + 1
              /\ LET q == SubSeq(shOrder', Len(shOrder) + 1, Len(shOrder'))
                 IN  Pos(q, "frontend") < Pos(q, "backend"))]_vars
    /\ [](shPc = "exited" => shStatus = 0)

\* C14: the launcher starts the frontend only after a backend health check
\* has succeeded, and Electron only after the frontend has answered.
C14_NextStageOnlyAfterHealthy ==
    /\ shKid["frontend"] # "none" => shHealthy["backend"]
    /\ shKid["electron"] # "none" => shHealthy["frontend"]


\* C27: in a session started through the launcher each service is spawned
\* at most once: the main process spawns no backend or frontend that the
\* launcher has already started.
C27_EachServiceSpawnedOnce ==
    \A s \in Services : ~(shKid[s] # "none" /\ Started(s))

\* ------------------------------------------------------------------------
\* Properties of Part III
\* ------------------------------------------------------------------------

\* C22: the environment given to a spawned service is the process
\* environment merged with the service's overrides: a name the overrides
\* set has the override's value, also when the process environment sets it
\* too, and every other name is as in the process environment.
C22_OverridesWin ==
    \A s \in Services :
        (envStage = "both" \/ (envStage = "backend" /\ s = "backend")) =>
            \A k \in EnvKeys :
                /\ Overrides(s)[k] # Unset => childEnv[s][k] = Overrides(s)[k]
                /\ Overrides(s)[k] = Unset => childEnv[s][k] = processEnv[k]

\* C22 witness: both services were spawned from a process environment
\* that sets PORT and PYTHONUNBUFFERED itself, and got the overrides.
C22_Witness ==
    /\ envStage = "both"
    /\ processEnv["PORT"] = "inherited"
    /\ processEnv["PYTHONUNBUFFERED"] = "inherited"
    /\ childEnv["frontend"]["PORT"] = "3000"
    /\ childEnv["backend"]["PYTHONUNBUFFERED"] = "1"
    /\ childEnv["backend"]["PORT"] = "inherited"


\* ------------------------------------------------------------------------
\* Properties of Part IV
\* ------------------------------------------------------------------------

\* C28: the run state is only ever set from a progress response for the
\* current run id, and a periodic progress request is only issued while
\* the hook is mounted and the last observed status is 'running'.
C28_RunSetOnlyForCurrentRunId ==
    [][/\ run' # run => run'.id = runId
       /\ (/\ \E id \in RunIds : progressCalls'[id] > progressCalls[id]
           /\ run' = run
           /\ runId' = runId)
          => (mounted /\ run.status = "running")]_vars

\* C29: the loading flag of usePriceOptimization is true exactly while at
\* least one of its requests is awaiting its answer.
C29_LoadingWhileInFlight ==
    loading <=> (\E k \in OptKinds : optCalls[k] > 0)

\* C30: useDebounce only publishes a value that is the current input and
\* has stayed unchanged for the full delay (a change of the input cancels
\* the pending update), and unless the input keeps changing the debounced
\* value eventually equals the latest input.
C30_DebouncePublishesSettledValue ==
    /\ [][debouncedValue' # debouncedValue =>
             (debouncedValue' = value /\ unchangedFor >= delay)]_vars
    /\ \/ []<>(debouncedValue = value)
       \/ []<><<value' # value \/ delay' # delay>>_vars

\* C30 witness: the input went from "a" to another value, stayed there for
\* the delay of two quanta, and was published.
C30_Witness ==
    /\ value # "a"
    /\ delay = MaxDelay
    /\ debouncedValue = value
    /\ handler = NoHandler
    /\ unchangedFor >= delay
====
